---- MODULE Spec2Model ----
(***************************************************************************)
(* Lumen RAG ingestion and retrieval: the file-indexing lifecycle of       *)
(* api/app/routers/files.py over the index operations of                   *)
(* api/app/services/azure_rag_service.py.                                  *)
(*                                                                         *)
(* Request handlers are coroutines: a handler is cut into steps at the     *)
(* statements that touch shared state (a row of uploaded_files, the search *)
(* index); what lies between two such statements is local to the request   *)
(* and is folded into the step that follows it.  Several handlers (and     *)
(* several worker processes) interleave at these steps.                    *)
(*                                                                         *)
(* Spec       the lifecycle of a file: upload, retry, sweep, delete        *)
(* SpecAccess Spec with the status endpoint, called by any identity        *)
(* SpecLive   Spec with the clock and the sweep weakly fair                *)
(* SpecSweep  cleanup_stuck_files over tables that hold several files      *)
(* SpecIndex  the index calls of AzureRAGService, by any tenant            *)
(* SpecEmbed  _generate_embeddings_bulk against the embedding provider     *)
(* SpecProcess  FileProcessor.process_file over texts around the threshold *)
(* SpecChunk  LocalChunker.chunk_text over texts of a few paragraphs        *)
(* SpecEnsure _ensure_index over indexes of any schema, with records        *)
(***************************************************************************)
EXTENDS Integers, Sequences, FiniteSets, Bags, TLC

VARIABLES
    uploaded_files,  \* file id -> row of the uploaded_files table, or NoRow
    issued,          \* file ids uuid4() has already returned
    index,           \* the Azure AI Search index: a set of chunk documents, key id
    requests,        \* the bag of handlers in flight, each with its locals
    response,        \* the HTTP response the last step returned, or NoResponse
    search_result,   \* what the last search_documents call returned
    embed,           \* the state of one _generate_embeddings_bulk call
    index_fields     \* the field names of the index's definition, or NoIndex

vars == <<uploaded_files, issued, index, requests, response, search_result, embed,
          index_fields>>

----------------------------------------------------------------------------
(* Bounds of the model *)

MaxChunks == 2      \* a text yields at most this many chunks
MaxReqs == 2        \* handlers in flight at the same time
MaxErrLen == 501    \* longest text of an exception raised by a collaborator
MinErrLen == 40     \* shortest text of an exception raised by a collaborator
ClockStep == 10     \* minutes between two observations of the clock
MaxTexts == 3       \* longest input list of one _generate_embeddings_bulk call
MaxBatch == 2       \* largest configured EMBEDDING_BATCH_SIZE
MaxTopK == 2        \* largest top_k of a search
MaxFileIds == 1     \* longest file_ids list of a search
MaxScore == 2       \* similarity scores are 1..MaxScore
MaxDelta == 20      \* text sizes range over the threshold -MaxDelta .. +MaxDelta
MaxParas == 3       \* most paragraphs of a text given to chunk_text
MaxSents == 2       \* most sentences of a paragraph
MaxSentTokens == 2  \* most tokens of a sentence
MaxChunkSize == 3   \* largest chunk_size of a chunker
MaxOverlap == 2     \* largest chunk_overlap of a chunker
MaxIndexedChunks == 1  \* most chunks of a text that upload_document goes on to index

(* Program constants *)

STUCK_MINUTES == 10        \* timedelta(minutes=10), INTERVAL '10 minutes'
ERROR_MSG_LIMIT == 500     \* str(e)[:500]
EMBEDDING_MAX_RETRIES == 5
EMBEDDING_RETRY_DELAY == 2
UPLOAD_BATCH_SIZE == 100   \* batch_size = 100 in upload_document
DELETE_SEARCH_TOP == 1000  \* top=1000 in delete_document
MAX_DIRECT_CONTEXT_CHARS == 50000
MISMATCH_MSG_LEN == 80     \* len of the ValueError text of upload_document
TIMEOUT_MSG_LEN == 59      \* len of the sweep's error_message
INDEX_DETAIL_PREFIX == 26  \* len("Failed to index document: ")
REINDEX_DETAIL_PREFIX == 29 \* len("Failed to re-index document: ")
Unencodable == -1          \* a text on which the tokenizer raises

Identities ==
    { [org_id |-> "orgA", user_id |-> "userA"],
      [org_id |-> "orgA", user_id |-> "userB"],
      [org_id |-> "orgB", user_id |-> "userB"] }

Orgs == { i.org_id : i \in Identities }

\* The identity whose uploads are followed; the other two stand for a caller
\* of the same organisation and for a caller of another organisation
Uploaders == { [org_id |-> "orgA", user_id |-> "userA"] }

\* The ids uuid4() returns to upload_file, in the order it returns them
FileSeq == <<"f1">>

\* The file ids a caller can name
FileIds == {"f1", "f2"}

\* An extracted text is identified by the number of chunks chunk_text yields
\* for it; Unencodable stands for a text on which encoding.encode raises.
Texts == {Unencodable} \cup (0..MaxChunks)

Min(a, b) == IF a < b THEN a ELSE b

----------------------------------------------------------------------------
(* Texts of exceptions and messages: an identity and a length *)

Text(id, len) == [id |-> id, len |-> len]

NULL == Text("NULL", 0)

\* s[:n]
Truncate(s, n) == Text(s.id, Min(s.len, n))

\* f"{prefix}{s}"
Prefixed(prefix_len, s) == Text(s.id, prefix_len + s.len)

\* What collaborators raise: the tokenizer and the index with a text that
\* fits the limit, the embedding provider with one that does not
ChunkingErrors == { Text("chunking", MinErrLen) }
EmbeddingErrors == { Text("embedding", MaxErrLen) }
IndexWriteErrors == { Text("index_write", ERROR_MSG_LIMIT) }

MismatchError == Text("mismatch", MISMATCH_MSG_LEN)
TimeoutMessage == Text("timeout", TIMEOUT_MSG_LEN)

----------------------------------------------------------------------------
(* Rows, requests, responses *)

NoRow == [status |-> "absent"]

NoRequest == [op |-> "none"]

NoResponse == [op |-> "none"]

NoEmbed == [pc |-> "off"]

\* No index of the name AZURE_SEARCH_INDEX_NAME exists in the search service
NoIndex == {}

\* fields = [...] of _ensure_index: the schema the service creates, which the
\* index has once AzureRAGService() has been constructed
RequiredFields ==
    { "id", "file_id", "org_id", "user_id", "filename", "content", "chunk_index",
      "token_count", "page_number", "section_header", "content_vector" }

HasRow(f) == uploaded_files[f] # NoRow

\* _library_scope
LibraryScope(use_direct) == IF use_direct THEN "direct" ELSE "rag"

\* INSERT INTO uploaded_files ... status 'processing', chunk_count 0
\* file_age is now - created_at; attempt_age is the time since the statement
\* that last set status to 'processing' (this INSERT, or the reset of a retry)
NewRow(idn, use_direct, content) ==
    [ org_id |-> idn.org_id,
      created_by |-> idn.user_id,
      status |-> "processing",
      file_age |-> 0,
      attempt_age |-> 0,
      error_message |-> NULL,
      chunk_count |-> 0,
      indexed_at |-> FALSE,
      use_direct_context |-> use_direct,
      library_scope |-> LibraryScope(use_direct),
      content |-> content ]

\* The locals of a handler of upload_file, retry_file_indexing or delete_file
NewRequest(op, f, idn, use_direct, content, pc) ==
    [ op |-> op,
      file_id |-> f,
      org_id |-> idn.org_id,
      user_id |-> idn.user_id,
      pc |-> pc,
      use_direct_context |-> use_direct,
      content |-> content,
      n_embeddings |-> -1,
      chunk_count |-> 0,
      error |-> NULL,
      batch_start |-> 0,
      written |-> {},
      rag_called |-> FALSE ]

\* An HTTP response; request holds the locals of the handler that returned it
Response(op, f, code, detail, q) ==
    [ op |-> op, file_id |-> f, org_id |-> "", status_code |-> code,
      detail |-> detail, chunk_count |-> 0, cleaned_count |-> 0, files |-> {},
      library_scope |-> "", indexed |-> FALSE, upload_status |-> "",
      indexed_at |-> FALSE, request |-> q ]

InFlight == BagToSet(requests)

Replace(q, p) == (requests (-) SetToBag({q})) (+) SetToBag({p})

Remove(q) == requests (-) SetToBag({q})

Add(q) == requests (+) SetToBag({q})

CanStart == BagCardinality(requests) < MaxReqs

----------------------------------------------------------------------------
(* Filter strings: built by the service with f-strings, read by Azure AI Search
   as OData. A string is a sequence of tokens: a token is a run of characters
   without OData meaning, or one of ' ( ) and or eq and the field names. *)

Quote == "'"

Fields == {"org_id", "user_id", "file_id"}

\* A string of identifier characters only
Plain(v) == <<v>>

\* f"{field} eq '{value}'": the value is interpolated as it is
FieldEq(field, value) == <<field, "eq", Quote>> \o value \o <<Quote>>

RECURSIVE Join(_, _)
\* sep.join(parts)
Join(sep, parts) ==
    IF parts = <<>> THEN <<>>
    ELSE IF Len(parts) = 1 THEN parts[1]
    ELSE parts[1] \o <<sep>> \o Join(sep, Tail(parts))

RECURSIVE LiteralEnd(_, _)
\* Position in toks, from i on, of the quote that closes a string literal
\* ('' inside a literal is an escaped quote); 0 if the literal is not closed
LiteralEnd(toks, i) ==
    IF i > Len(toks) THEN 0
    ELSE IF toks[i] # Quote THEN LiteralEnd(toks, i + 1)
    ELSE IF i + 1 <= Len(toks) /\ toks[i + 1] = Quote THEN LiteralEnd(toks, i + 2)
    ELSE i

ParseFail == [ok |-> FALSE, val |-> FALSE, rest |-> <<>>]

RECURSIVE ParseOr(_, _)
RECURSIVE ParseAnd(_, _)
RECURSIVE ParsePrimary(_, _)

\* primary := ( expr ) | field eq 'literal'
ParsePrimary(toks, d) ==
    IF toks = <<>> THEN ParseFail
    ELSE IF Head(toks) = "("
    THEN LET r == ParseOr(Tail(toks), d)
         IN IF r.ok /\ r.rest # <<>> /\ Head(r.rest) = ")"
            THEN [r EXCEPT !.rest = Tail(r.rest)]
            ELSE ParseFail
    ELSE IF Head(toks) \in Fields /\ Len(toks) >= 3 /\ toks[2] = "eq" /\ toks[3] = Quote
    THEN LET body == SubSeq(toks, 4, Len(toks))
             n == LiteralEnd(body, 1)
         IN IF n = 0 THEN ParseFail
            ELSE [ok |-> TRUE,
                  val |-> SubSeq(body, 1, n - 1) = Plain(d[Head(toks)]),
                  rest |-> SubSeq(body, n + 1, Len(body))]
    ELSE ParseFail

\* term := primary (and primary)*   -- and binds tighter than or
ParseAnd(toks, d) ==
    LET l == ParsePrimary(toks, d)
    IN IF ~l.ok THEN ParseFail
       ELSE IF l.rest # <<>> /\ Head(l.rest) = "and"
       THEN LET r == ParseAnd(Tail(l.rest), d)
            IN IF r.ok THEN [ok |-> TRUE, val |-> l.val /\ r.val, rest |-> r.rest]
               ELSE ParseFail
       ELSE l

\* expr := term (or term)*
ParseOr(toks, d) ==
    LET l == ParseAnd(toks, d)
    IN IF ~l.ok THEN ParseFail
       ELSE IF l.rest # <<>> /\ Head(l.rest) = "or"
       THEN LET r == ParseOr(Tail(l.rest), d)
            IN IF r.ok THEN [ok |-> TRUE, val |-> l.val \/ r.val, rest |-> r.rest]
               ELSE ParseFail
       ELSE l

\* Whether the service accepts the filter (it answers 400 otherwise)
ODataValid(filter_str) ==
    LET r == ParseOr(filter_str, [org_id |-> "", user_id |-> "", file_id |-> ""])
    IN r.ok /\ r.rest = <<>>

\* Whether document d satisfies the filter
ODataMatch(filter_str, d) ==
    LET r == ParseOr(filter_str, d)
    IN r.ok /\ r.rest = <<>> /\ r.val

----------------------------------------------------------------------------
(* The index: AzureRAGService over Azure AI Search *)

\* chunk_index of the chunks chunk_text returns for a text
ChunkIndexes(content) == 0..(content - 1)

\* The document upload_document builds for one chunk
Document(f, org, user, i) ==
    [ id |-> <<f, i>>, file_id |-> f, org_id |-> org, user_id |-> user,
      chunk_index |-> i ]

\* for chunk, embedding in zip(chunks, chunk_embeddings): documents.append(doc)
Documents(f, org, user, n_chunks, n_embeddings) ==
    { Document(f, org, user, i) : i \in 0..(Min(n_chunks, n_embeddings) - 1) }

EmbeddingCountMismatchOnlyFewer(n_embeddings, n_chunks) == n_embeddings < n_chunks

\* if len(chunk_embeddings) != len(chunks): raise ValueError
EmbeddingCountMismatch(n_embeddings, n_chunks) == n_embeddings # n_chunks

\* documents[i:i + batch_size]
Batch(docs, i) ==
    { d \in docs : d.chunk_index >= i /\ d.chunk_index < i + UPLOAD_BATCH_SIZE }

\* search_client.upload_documents: a document replaces the one with its key
Upsert(idx, docs) == { d \in idx : \A n \in docs : n.id # d.id } \cup docs

\* What one upload_documents call can do to a batch: raise and write nothing,
\* or return a result per document, some of which may not have succeeded
\* (HTTP 207); upload_document does not inspect the returned result.
BatchOutcomes(batch) ==
    { [raised |-> TRUE, succeeded |-> {}, error |-> e] : e \in IndexWriteErrors }
    \cup { [raised |-> FALSE, succeeded |-> w, error |-> NULL] : w \in SUBSET batch }

\* What _generate_embeddings_bulk can return to upload_document for n texts:
\* it raises, or returns a list whose length is the sum of the lengths of the
\* provider's responses.
EmbedOutcomes(n) ==
    { [raised |-> TRUE, count |-> 0, error |-> e] : e \in EmbeddingErrors }
    \cup { [raised |-> FALSE, count |-> c, error |-> NULL] : c \in (n - 1)..(n + 1) }

\* What chunk_text and _generate_embeddings_bulk can hand to upload_document
\* for a text: encode raises; no chunk; or an embedding outcome.
IndexingOutcomes(content) ==
    IF content = Unencodable
    THEN { [raised |-> TRUE, count |-> 0, error |-> e] : e \in ChunkingErrors }
    ELSE IF content = 0
    THEN { [raised |-> FALSE, count |-> 0, error |-> NULL] }
    ELSE EmbedOutcomes(content)

\* filter_str of get_document_status and delete_document:
\* f"file_id eq '{file_id}' and org_id eq '{org_id}' and user_id eq '{user_id}'"
FileFilterStr(file_id, org_id, user_id) ==
    Join("and", << FieldEq("file_id", file_id), FieldEq("org_id", org_id),
                   FieldEq("user_id", user_id) >>)

\* The documents search_client.search(filter=filter_str) selects
FileFilter(d, file_id, org, user) ==
    ODataMatch(FileFilterStr(file_id, Plain(org), Plain(user)), d)

\* filters = [org_id eq, user_id eq]; if file_ids: filters.append("(... or ...)")
\* filter_str = " and ".join(filters)
SearchFilterStr(org_id, user_id, file_ids) ==
    Join("and",
         << FieldEq("org_id", org_id), FieldEq("user_id", user_id) >>
         \o (IF file_ids # <<>>
             THEN << <<"(">>
                     \o Join("or", [i \in 1..Len(file_ids) |-> FieldEq("file_id", file_ids[i])])
                     \o <<")">> >>
             ELSE <<>>))

\* results of search_client.search(filter=filter_str, top=n): n of the
\* documents, or all of them if they are fewer
Top(selected, n) ==
    { h \in SUBSET selected : Cardinality(h) = Min(n, Cardinality(selected)) }

\* The indexes a delete_document call that returns can leave: the ids found by
\* the search with top=1000 are passed to delete_documents, whose returned
\* per-document results are not inspected
DeleteResults(idx, file_id, org, user) ==
    LET selected == { d \in idx : FileFilter(d, file_id, org, user) }
    IN { idx \ deleted :
            deleted \in UNION { SUBSET found : found \in Top(selected, DELETE_SEARCH_TOP) } }

----------------------------------------------------------------------------
(* Init *)

Init ==
    /\ uploaded_files = [f \in FileIds |-> NoRow]
    /\ issued = {}
    /\ index = {}
    /\ requests = EmptyBag
    /\ response = NoResponse
    /\ search_result = NoResponse
    /\ embed = NoEmbed
    /\ index_fields = RequiredFields

----------------------------------------------------------------------------
(* upload_file *)

\* file_id = str(uuid.uuid4()): an id not returned before
FreshFileId == FileSeq[Cardinality(issued) + 1]

\* upload_file up to the INSERT: the extraction collaborator has supplied
\* (full_text, use_direct_context); the row is stored with status processing.
UploadFile(idn, use_direct, content) ==
    /\ CanStart
    /\ Cardinality(issued) < Len(FileSeq)
    /\ use_direct => content = 0
    /\ LET f == FreshFileId
       IN /\ uploaded_files' = [uploaded_files EXCEPT ![f] = NewRow(idn, use_direct, content)]
          /\ issued' = issued \cup {f}
          /\ requests' = Add(NewRequest("upload", f, idn, use_direct, content,
                                        IF use_direct THEN "mark_ready" ELSE "index"))
    /\ response' = NoResponse
    /\ UNCHANGED <<index, search_result, embed, index_fields>>

IsIndexedByChunks(use_direct, chunk_count) == chunk_count > 0

\* _is_indexed
IsIndexed(use_direct, chunk_count) == use_direct \/ chunk_count > 0

\* UPDATE uploaded_files SET status = 'ready', chunk_count, indexed_at WHERE id
SetReady(row, use_direct, chunk_count) ==
    IF row = NoRow THEN row
    ELSE [row EXCEPT !.status = "ready",
                     !.chunk_count = chunk_count,
                     !.indexed_at = IF IsIndexed(use_direct, chunk_count)
                                    THEN TRUE ELSE row.indexed_at]

SetErrorUntruncated(row, e, limit) ==
    IF row = NoRow THEN row
    ELSE [row EXCEPT !.status = "error", !.error_message = e]

\* error_msg = str(e)[:500]
\* UPDATE uploaded_files SET status = 'error', error_message = :msg WHERE id
SetError(row, e, limit) ==
    IF row = NoRow THEN row
    ELSE [row EXCEPT !.status = "error", !.error_message = Truncate(e, limit)]

\* "Mark as ready" of upload_file and retry_file_indexing, and the return;
\* q0 is the handler as it is in flight, q its locals when it returns
ReturnReady(q0, q) ==
    /\ uploaded_files' = [uploaded_files EXCEPT ![q.file_id] =
            SetReady(@, q.use_direct_context, q.chunk_count)]
    /\ response' = [Response(q.op, q.file_id, 200, NULL, [q EXCEPT !.pc = "returned"])
                      EXCEPT !.chunk_count = q.chunk_count,
                             !.library_scope = IF q.op = "upload"
                                               THEN LibraryScope(q.use_direct_context)
                                               ELSE @,
                             !.indexed = IF q.op = "upload"
                                         THEN IsIndexed(q.use_direct_context, q.chunk_count)
                                         ELSE @]
    /\ requests' = Remove(q0)

\* except Exception as e: the UPDATE to error, then raise HTTPException(500)
ReturnError(q0, q) ==
    /\ uploaded_files' = [uploaded_files EXCEPT ![q.file_id] =
            SetError(@, q.error, ERROR_MSG_LIMIT)]
    /\ response' = Response(q.op, q.file_id, 500,
            Prefixed(IF q.op = "upload" THEN INDEX_DETAIL_PREFIX
                     ELSE REINDEX_DETAIL_PREFIX, q.error),
            [q EXCEPT !.pc = "returned"])
    /\ requests' = Remove(q0)

\* One iteration of the upload loop of upload_document
UploadDocumentsBatch(q0, q) ==
    LET docs == Documents(q.file_id, q.org_id, q.user_id, q.content, q.n_embeddings)
        batch == Batch(docs, q.batch_start)
        next == q.batch_start + UPLOAD_BATCH_SIZE
    IN \E out \in BatchOutcomes(batch) :
          /\ index' = Upsert(index, out.succeeded)
          /\ requests' = Replace(q0,
                IF out.raised
                THEN [q EXCEPT !.pc = "mark_error", !.error = out.error]
                ELSE IF next < Cardinality(docs)
                THEN [q EXCEPT !.batch_start = next,
                               !.written = q.written \cup { d.id : d \in out.succeeded }]
                ELSE [q EXCEPT !.pc = "mark_ready",
                               !.chunk_count = q.content,
                               !.written = q.written \cup { d.id : d \in out.succeeded }])
          /\ response' = NoResponse
          /\ UNCHANGED uploaded_files

\* rag_service.upload_document inside the try of upload_file and of
\* retry_file_indexing, up to its next statement on shared state: chunk_text,
\* _generate_embeddings_bulk and the count check, then either the UPDATE of the
\* except clause, or the "Mark as ready" UPDATE (no chunk), or an index write.
UploadDocument(q) ==
    /\ q \in InFlight
    /\ q.pc = "index"
    /\ IF q.n_embeddings # -1
       THEN UploadDocumentsBatch(q, q)
       ELSE \E out \in IndexingOutcomes(q.content) :
            LET c == [q EXCEPT !.rag_called = TRUE]
                p == [c EXCEPT !.n_embeddings = out.count]
            IN IF out.raised
               THEN ReturnError(q, [c EXCEPT !.error = out.error]) /\ UNCHANGED index
               ELSE IF q.content = 0
               THEN ReturnReady(q, c) /\ UNCHANGED index
               ELSE IF EmbeddingCountMismatch(out.count, q.content)
               THEN ReturnError(q, [p EXCEPT !.error = MismatchError]) /\ UNCHANGED index
               ELSE IF Documents(q.file_id, q.org_id, q.user_id, q.content, out.count) = {}
               THEN ReturnReady(q, [p EXCEPT !.chunk_count = q.content]) /\ UNCHANGED index
               ELSE UploadDocumentsBatch(q, p)
    /\ UNCHANGED <<issued, search_result, embed, index_fields>>

\* The "Mark as ready" UPDATE after upload_document returned, or for a file
\* of direct context
MarkReady(q) ==
    /\ q \in InFlight
    /\ q.pc = "mark_ready"
    /\ ReturnReady(q, q)
    /\ UNCHANGED <<issued, index, search_result, embed, index_fields>>

\* The except clause after an index write raised
MarkError(q) ==
    /\ q \in InFlight
    /\ q.pc = "mark_error"
    /\ ReturnError(q, q)
    /\ UNCHANGED <<issued, index, search_result, embed, index_fields>>

----------------------------------------------------------------------------
(* retry_file_indexing *)

ForbiddenToNobody(file_owner, user_id) == FALSE

\* if file_owner != user_id: raise HTTPException(403)
Forbidden(file_owner, user_id) == file_owner # user_id

\* The row a handler of identity idn finds with WHERE id = :id in its schema
FindRow(idn, f) ==
    IF HasRow(f) /\ uploaded_files[f].org_id = idn.org_id
    THEN uploaded_files[f] ELSE NoRow

\* if file_status == 'ready': 400
\* if file_status == 'processing' and file_age < timedelta(minutes=10): 400
RetryEligible(row) ==
    /\ row.status # "ready"
    /\ ~(row.status = "processing" /\ row.file_age < STUCK_MINUTES)

\* retry_file_indexing up to the eligibility check, which rejects or goes on
RetryFileIndexing(idn, f) ==
    /\ LET row == FindRow(idn, f)
       IN \/ /\ row = NoRow
             /\ response' = Response("retry", f, 404, NULL, NoRequest)
             /\ UNCHANGED requests
          \/ /\ row # NoRow
             /\ Forbidden(row.created_by, idn.user_id)
             /\ response' = Response("retry", f, 403, NULL, NoRequest)
             /\ UNCHANGED requests
          \/ /\ row # NoRow
             /\ ~Forbidden(row.created_by, idn.user_id)
             /\ ~RetryEligible(row)
             /\ response' = Response("retry", f, 400, NULL, NoRequest)
             /\ UNCHANGED requests
          \/ /\ row # NoRow
             /\ ~Forbidden(row.created_by, idn.user_id)
             /\ RetryEligible(row)
             /\ CanStart
             /\ requests' = Add(NewRequest("retry", f, idn, row.use_direct_context,
                                           row.content, "reset"))
             /\ response' = NoResponse
    /\ UNCHANGED <<uploaded_files, issued, index, search_result, embed, index_fields>>

\* UPDATE uploaded_files SET status = 'processing', error_message = NULL WHERE id
SetProcessing(row) ==
    IF row = NoRow THEN row
    ELSE [row EXCEPT !.status = "processing", !.error_message = NULL,
                     !.attempt_age = 0]

\* "Reset status to processing" of retry_file_indexing
RetryReset(q) ==
    /\ q \in InFlight
    /\ q.pc = "reset"
    /\ uploaded_files' = [uploaded_files EXCEPT ![q.file_id] = SetProcessing(@)]
    /\ requests' = Replace(q, [q EXCEPT !.pc =
            IF q.use_direct_context THEN "mark_ready" ELSE "index"])
    /\ response' = NoResponse
    /\ UNCHANGED <<issued, index, search_result, embed, index_fields>>

----------------------------------------------------------------------------
(* cleanup_stuck_files *)

IsStuckAtLeast(row) == row.status = "processing" /\ row.file_age >= STUCK_MINUTES

\* WHERE status = 'processing' AND created_at < NOW() - INTERVAL '10 minutes'
IsStuck(row) == row.status = "processing" /\ row.file_age > STUCK_MINUTES

\* The rows the UPDATE of cleanup_stuck_files matches in the caller's schema
StuckFiles(org) ==
    { f \in FileIds : /\ HasRow(f)
                      /\ uploaded_files[f].org_id = org
                      /\ IsStuck(uploaded_files[f]) }

SetTimedOutMessageOnly(row) == [row EXCEPT !.error_message = TimeoutMessage]

\* SET status = 'error', error_message = 'Indexing timeout - ...'
SetTimedOut(row) == [row EXCEPT !.status = "error", !.error_message = TimeoutMessage]

CleanupStuckFiles(idn) ==
    /\ LET stuck == StuckFiles(idn.org_id)
       IN /\ uploaded_files' = [f \in FileIds |->
                IF f \in stuck THEN SetTimedOut(uploaded_files[f])
                ELSE uploaded_files[f]]
          /\ response' = [Response("cleanup", "", 200, NULL, NoRequest)
                            EXCEPT !.org_id = idn.org_id,
                                   !.cleaned_count = Cardinality(stuck),
                                   !.files = stuck]
    /\ UNCHANGED <<issued, index, requests, search_result, embed, index_fields>>

----------------------------------------------------------------------------
(* delete_file *)

\* delete_file up to the ownership check
DeleteFile(idn, f) ==
    /\ LET row == FindRow(idn, f)
       IN \/ /\ row = NoRow
             /\ response' = Response("delete", f, 404, NULL, NoRequest)
             /\ UNCHANGED requests
          \/ /\ row # NoRow
             /\ Forbidden(row.created_by, idn.user_id)
             /\ response' = Response("delete", f, 403, NULL, NoRequest)
             /\ UNCHANGED requests
          \/ /\ row # NoRow
             /\ ~Forbidden(row.created_by, idn.user_id)
             /\ CanStart
             /\ requests' = Add(NewRequest("delete", f, idn, row.use_direct_context,
                                           0, "delete_row"))
             /\ response' = NoResponse
    /\ UNCHANGED <<uploaded_files, issued, index, search_result, embed, index_fields>>

\* DELETE FROM uploaded_files WHERE id = :id AND created_by = :user
DeleteRow(q) ==
    /\ q \in InFlight
    /\ q.pc = "delete_row"
    /\ LET row == FindRow(q, q.file_id)
       IN uploaded_files' = [uploaded_files EXCEPT ![q.file_id] =
                IF row # NoRow /\ row.created_by = q.user_id THEN NoRow ELSE @]
    /\ IF q.use_direct_context
       THEN /\ requests' = Remove(q)
            /\ response' = Response("delete", q.file_id, 200, NULL,
                                    [q EXCEPT !.pc = "returned"])
       ELSE /\ requests' = Replace(q, [q EXCEPT !.pc = "delete_index"])
            /\ response' = NoResponse
    /\ UNCHANGED <<issued, index, search_result, embed, index_fields>>

\* What search_client.search or delete_documents raises to delete_document
IndexDeleteErrors == { Text("index_delete", MinErrLen) }

DeleteIndexPropagates(q, raised) ==
    /\ q \in InFlight
    /\ q.pc = "delete_index"
    /\ IF raised THEN index' = index
       ELSE index' \in DeleteResults(index, Plain(q.file_id), q.org_id, q.user_id)
    /\ response' = Response("delete", q.file_id, IF raised THEN 500 ELSE 200, NULL,
                            [q EXCEPT !.pc = "returned"])
    /\ requests' = Remove(q)
    /\ UNCHANGED <<uploaded_files, issued, search_result, embed, index_fields>>

\* rag_service.delete_document inside try/except of delete_file, and the return;
\* an exception of the index leaves the documents and is only logged: error is
\* the e of the except clause
DeleteIndex(q, raised) ==
    /\ q \in InFlight
    /\ q.pc = "delete_index"
    /\ \E e \in IF raised THEN IndexDeleteErrors ELSE {NULL} :
          /\ IF raised THEN index' = index
             ELSE index' \in DeleteResults(index, Plain(q.file_id), q.org_id, q.user_id)
          /\ response' = Response("delete", q.file_id, 200, NULL,
                                  [q EXCEPT !.pc = "returned", !.error = e])
    /\ requests' = Remove(q)
    /\ UNCHANGED <<uploaded_files, issued, search_result, embed, index_fields>>

----------------------------------------------------------------------------
(* The environment: time passes, a request is cancelled or its worker dies *)

AgeCap == STUCK_MINUTES + 1

\* now - created_at grows for every row; ages beyond the timeout are alike
Tick ==
    /\ uploaded_files' = [f \in FileIds |->
            IF HasRow(f)
            THEN [uploaded_files[f] EXCEPT !.file_age = Min(@ + ClockStep, AgeCap),
                                           !.attempt_age = Min(@ + ClockStep, AgeCap)]
            ELSE NoRow]
    /\ response' = NoResponse
    /\ UNCHANGED <<issued, index, requests, search_result, embed, index_fields>>

\* CancelledError is not an Exception: no except clause of upload_file or
\* retry_file_indexing runs, the request ends where it is
Cancel(q) ==
    /\ q \in InFlight
    /\ requests' = Remove(q)
    /\ response' = NoResponse
    /\ UNCHANGED <<uploaded_files, issued, index, search_result, embed, index_fields>>

----------------------------------------------------------------------------

Next ==
    \/ \E idn \in Uploaders, d \in BOOLEAN, c \in Texts : UploadFile(idn, d, c)
    \/ \E q \in InFlight : UploadDocument(q)
    \/ \E q \in InFlight : MarkReady(q)
    \/ \E q \in InFlight : MarkError(q)
    \/ \E idn \in Identities, f \in FileIds : RetryFileIndexing(idn, f)
    \/ \E q \in InFlight : RetryReset(q)
    \/ \E idn \in Identities : CleanupStuckFiles(idn)
    \/ \E idn \in Identities, f \in FileIds : DeleteFile(idn, f)
    \/ \E q \in InFlight : DeleteRow(q)
    \/ \E q \in InFlight, raised \in BOOLEAN : DeleteIndex(q, raised)
    \/ Tick
    \/ \E q \in InFlight : Cancel(q)

Spec == Init /\ [][Next]_vars

----------------------------------------------------------------------------
(* SpecAccess: the lifecycle with the status endpoint, called by any identity *)

\* get_file_indexing_status
get_file_indexing_status(idn, f) ==
    /\ LET row == FindRow(idn, f)
       IN response' =
            IF row = NoRow
            THEN Response("status", f, 404, NULL, NoRequest)
            ELSE IF Forbidden(row.created_by, idn.user_id)
            THEN Response("status", f, 403, NULL, NoRequest)
            ELSE [Response("status", f, 200, NULL, NoRequest)
                    EXCEPT !.upload_status = row.status,
                           !.indexed = IsIndexed(row.use_direct_context, row.chunk_count),
                           !.chunk_count = row.chunk_count,
                           !.library_scope = row.library_scope,
                           !.indexed_at = row.indexed_at]
    /\ UNCHANGED <<uploaded_files, issued, index, requests, search_result, embed,
                   index_fields>>

AccessNext ==
    \/ Next
    \/ \E idn \in Identities, f \in FileIds : get_file_indexing_status(idn, f)

SpecAccess == Init /\ [][AccessNext]_vars

----------------------------------------------------------------------------
(* SpecLive: the lifecycle with time advancing and the sweep run again and
   again in every organisation; no request is required to take its steps *)

SpecLive ==
    /\ Spec
    /\ WF_vars(Tick)
    /\ \A idn \in Identities : WF_vars(CleanupStuckFiles(idn))

----------------------------------------------------------------------------
(* SpecSweep: cleanup_stuck_files over tables that hold several files *)

\* Rows as upload_file, retry_file_indexing and cleanup_stuck_files leave them
SweepRows ==
    { [NewRow(idn, FALSE, MaxChunks) EXCEPT !.status = st.status,
                                            !.error_message = st.error_message,
                                            !.chunk_count = st.chunk_count,
                                            !.indexed_at = st.chunk_count > 0,
                                            !.file_age = age,
                                            !.attempt_age = age] :
        idn \in Identities,
        age \in {0, STUCK_MINUTES, AgeCap},
        st \in { [status |-> "processing", error_message |-> NULL, chunk_count |-> 0],
                 [status |-> "ready", error_message |-> NULL, chunk_count |-> MaxChunks],
                 [status |-> "error", error_message |-> TimeoutMessage, chunk_count |-> 0],
                 [status |-> "error", error_message |-> MismatchError, chunk_count |-> 0] } }

SweepInit ==
    /\ uploaded_files \in [FileIds -> SweepRows]
    /\ issued = FileIds
    /\ index = {}
    /\ requests = EmptyBag
    /\ response = NoResponse
    /\ search_result = NoResponse
    /\ embed = NoEmbed
    /\ index_fields = RequiredFields

SweepNext ==
    \/ \E idn \in Identities : CleanupStuckFiles(idn)
    \/ Tick

SpecSweep == SweepInit /\ [][SweepNext]_vars

----------------------------------------------------------------------------
(* SpecIndex: the calls of AzureRAGService on the shared index, by any tenant *)

\* The string  x') or (org_id eq 'orgB
InjectedFileId == <<"x", Quote, ")", "or", "(", "org_id", "eq", Quote, "orgB">>

\* The string  f1'
UnclosedFileId == <<"f1", Quote>>

\* file ids a caller can pass: ids of files, of any tenant, and other strings
FileIdArgs == { Plain(f) : f \in FileIds } \cup { InjectedFileId, UnclosedFileId }

\* The tenant that searches
Searchers == { [org_id |-> "orgA", user_id |-> "userA"] }

\* The tenants that upload to the index and delete from it
Tenants == { [org_id |-> "orgA", user_id |-> "userA"],
             [org_id |-> "orgB", user_id |-> "userB"] }

FileIdLists == UNION { [1..n -> FileIdArgs] : n \in 0..MaxFileIds }

\* upload_document, as one call: chunk, embed, check the count, write the batch
upload_document(idn, f, content) ==
    /\ \E out \in IndexingOutcomes(content) :
          IF out.raised \/ content = 0 \/ EmbeddingCountMismatch(out.count, content)
          THEN UNCHANGED index
          ELSE \E w \in BatchOutcomes(Batch(Documents(f, idn.org_id, idn.user_id,
                                                     content, out.count), 0)) :
                  index' = Upsert(index, w.succeeded)
    /\ UNCHANGED <<uploaded_files, issued, requests, response, search_result, embed, index_fields>>

\* The string  f1' or file_id eq 'f1
InjectedDeleteId == <<"f1", Quote, "or", "file_id", "eq", Quote, "f1">>

\* file ids a caller can pass to delete_document
DeleteIdArgs == { Plain(f) : f \in FileIds } \cup { InjectedDeleteId, UnclosedFileId }

\* delete_document: the index raises (it does on a filter it cannot parse), or
\* the call returns
delete_document(idn, file_id, raised) ==
    /\ raised \/ ODataValid(FileFilterStr(file_id, Plain(idn.org_id), Plain(idn.user_id)))
    /\ IF raised THEN index' = index
       ELSE index' \in DeleteResults(index, file_id, idn.org_id, idn.user_id)
    /\ UNCHANGED <<uploaded_files, issued, requests, response, search_result, embed, index_fields>>

\* The orders in which the index can list the selected documents: by
\* descending @search.score, documents of equal score in any order
Rankings(selected, score) ==
    LET N == Cardinality(selected)
    IN { r \in [1..N -> selected] :
            /\ \A i, j \in 1..N : i # j => r[i] # r[j]
            /\ \A i \in 1..(N - 1) : score[r[i]] >= score[r[i + 1]] }

\* results of search_client.search(vector_queries, filter=filter_str,
\* top=top_k): the first top_k of a ranking of the documents the filter
\* selects, or all of them if they are fewer; score is the similarity of each
\* selected document to the query vector
SearchHits(filter_str, top_k) ==
    LET selected == { d \in index : ODataMatch(filter_str, d) }
        n == Min(top_k, Cardinality(selected))
    IN UNION { { [hits |-> SubSeq(r, 1, n), score |-> score, selected |-> selected] :
                    r \in Rankings(selected, score) } :
               score \in [selected -> 1..MaxScore] }

\* What search_documents returns for a hit: the fields of select and the score
Chunk(d, score) == [file_id |-> d.file_id, chunk_index |-> d.chunk_index, score |-> score]

\* search_documents: chunks is the returned list, in the order of the results;
\* records is the set of index records behind chunks, passed_over the highest
\* score of a selected record that was not returned (0 if there is none)
search_documents(idn, file_ids, top_k, embedded) ==
    /\ LET filter_str == SearchFilterStr(Plain(idn.org_id), Plain(idn.user_id), file_ids)
           call == [op |-> "search", org_id |-> idn.org_id, user_id |-> idn.user_id]
       IN IF ~embedded \/ ~ODataValid(filter_str)
          THEN search_result' = [call |-> call, raised |-> TRUE, chunks |-> <<>>,
                                 records |-> {}, passed_over |-> 0]
          ELSE \E h \in SearchHits(filter_str, top_k) :
                  LET records == { h.hits[i] : i \in 1..Len(h.hits) }
                      rest == { h.score[d] : d \in h.selected \ records }
                  IN search_result' =
                        [call |-> call, raised |-> FALSE,
                         chunks |-> [i \in 1..Len(h.hits) |->
                                        Chunk(h.hits[i], h.score[h.hits[i]])],
                         records |-> records,
                         passed_over |-> IF rest = {} THEN 0
                                         ELSE CHOOSE m \in rest : \A x \in rest : x <= m]
    /\ UNCHANGED <<uploaded_files, issued, index, requests, response, embed, index_fields>>

IndexNext ==
    \/ \E idn \in Tenants, f \in FileIds, c \in Texts : upload_document(idn, f, c)
    \/ \E idn \in Tenants, file_id \in DeleteIdArgs, raised \in BOOLEAN :
          delete_document(idn, file_id, raised)
    \/ \E idn \in Searchers, ids \in FileIdLists, k \in 1..MaxTopK, e \in BOOLEAN :
          search_documents(idn, ids, k, e)

SpecIndex == Init /\ [][IndexNext]_vars

----------------------------------------------------------------------------
(* SpecEmbed: _generate_embeddings_bulk against the embedding provider *)

Max(a, b) == IF a > b THEN a ELSE b

\* The vector the provider computes for a text
Embedding(t) == [embedding_of |-> t]

\* Input lists: texts are named by numbers
TextLists == UNION { [1..n -> 1..MaxTexts] : n \in 0..MaxTexts }

\* Orders in which the provider can list n items
Orders(n) == { p \in [1..n -> 1..n] : \A i, j \in 1..n : p[i] = p[j] => i = j }

\* response.data for a request: one item per input, tagged with the position
\* of the input in the request, listed in the order p
ResponseData(batch_inputs, p) ==
    [ i \in 1..Len(batch_inputs) |->
        [index |-> p[i] - 1, embedding |-> Embedding(batch_inputs[p[i]])] ]

RECURSIVE Insert(_, _)
\* item placed after the items of the sorted list whose index is not greater
Insert(item, sorted) ==
    IF sorted = <<>> THEN <<item>>
    ELSE IF item.index < Head(sorted).index THEN <<item>> \o sorted
    ELSE <<Head(sorted)>> \o Insert(item, Tail(sorted))

RECURSIVE SortByIndex(_)
SortByIndex(data) ==
    IF data = <<>> THEN <<>>
    ELSE Insert(data[Len(data)], SortByIndex(SubSeq(data, 1, Len(data) - 1)))

Unsorted(data) == data

\* sorted(response.data, key=lambda item: getattr(item, "index", 0))
SortedData(data) == SortByIndex(data)

\* What one embeddings.create call can do: answer (with one item per input in
\* some order, with the last item missing, or with one item too many), raise
\* RateLimitError, or raise another exception
ProviderOutcomes(batch_inputs) ==
    { [kind |-> "data", data |-> ResponseData(batch_inputs, p), complete |-> TRUE,
       in_order |-> \A i \in 1..Len(batch_inputs) : p[i] = i] :
        p \in Orders(Len(batch_inputs)) }
    \cup { [kind |-> "data",
            data |-> SubSeq(ResponseData(batch_inputs, [i \in 1..Len(batch_inputs) |-> i]),
                            1, Len(batch_inputs) - 1),
            complete |-> FALSE, in_order |-> TRUE] }
    \cup { [kind |-> "data",
            data |-> Append(ResponseData(batch_inputs, [i \in 1..Len(batch_inputs) |-> i]),
                            [index |-> Len(batch_inputs),
                             embedding |-> Embedding(batch_inputs[1])]),
            complete |-> FALSE, in_order |-> TRUE] }
    \cup { [kind |-> k, data |-> <<>>, complete |-> FALSE, in_order |-> TRUE] :
            k \in {"rate_limit", "error"} }

\* What a call has given its caller: nothing yet, a list, or an exception
NoResult == [kind |-> "none", vectors |-> <<>>]

Returns(vectors) == [kind |-> "return", vectors |-> vectors]

Raises(exception) == [kind |-> exception, vectors |-> <<>>]

\* The locals of _generate_embeddings_bulk at its entry; single says that the
\* caller is _generate_embedding, calls counts the embeddings.create calls made
EmbedCall(texts, env_batch_size, single) ==
    [pc |-> IF texts = <<>> THEN "returned" ELSE "create",
     texts |-> texts,
     batch_size |-> Max(1, env_batch_size),
     start |-> 0, attempt |-> 0, embeddings |-> <<>>,
     complete |-> TRUE, in_order |-> TRUE,
     single |-> single, delay |-> 0, other_errors |-> 0,
     calls |-> 0,
     result |-> IF texts = <<>> THEN Returns(<<>>) ELSE NoResult]

\* _generate_embeddings_bulk(texts) is called, EMBEDDING_BATCH_SIZE being
\* configured to env_batch_size
GenerateEmbeddingsBulk(texts, env_batch_size) ==
    /\ embed = NoEmbed
    /\ embed' = EmbedCall(texts, env_batch_size, FALSE)
    /\ UNCHANGED <<uploaded_files, issued, index, requests, response, search_result, index_fields>>

\* _generate_embedding(text) is called: _generate_embeddings_bulk([text])
GenerateEmbedding(text, env_batch_size) ==
    /\ embed = NoEmbed
    /\ embed' = EmbedCall(<<text>>, env_batch_size, TRUE)
    /\ UNCHANGED <<uploaded_files, issued, index, requests, response, search_result, index_fields>>

RetriesExhaustedEarly(attempt) == attempt >= EMBEDDING_MAX_RETRIES

RetriesExhaustedLate(attempt) == attempt > EMBEDDING_MAX_RETRIES + 1

\* if attempt > EMBEDDING_MAX_RETRIES: raise
RetriesExhausted(attempt) == attempt > EMBEDDING_MAX_RETRIES

\* delay = EMBEDDING_RETRY_DELAY * attempt
RetryDelay(attempt) == EMBEDDING_RETRY_DELAY * attempt

RetriedAny(kind) == kind \in {"rate_limit", "error"}

\* except RateLimitError, as opposed to except Exception
Retried(kind) == kind = "rate_limit"

\* return embeddings, and for _generate_embedding: return embeddings[0]
EmbedReturn(e) ==
    IF ~e.single THEN [e EXCEPT !.pc = "returned", !.result = Returns(e.embeddings)]
    ELSE IF e.embeddings = <<>>
    THEN [e EXCEPT !.pc = "raised", !.result = Raises("IndexError")]
    ELSE [e EXCEPT !.pc = "returned", !.result = Returns(<<e.embeddings[1]>>)]

\* One pass of the while True loop: embeddings.create and what follows it
EmbeddingsCreate ==
    /\ embed.pc = "create"
    /\ LET batch_inputs == SubSeq(embed.texts, embed.start + 1,
                                  Min(embed.start + embed.batch_size, Len(embed.texts)))
           next == embed.start + embed.batch_size
       IN \E out \in ProviderOutcomes(batch_inputs) :
             embed' =
               IF out.kind = "data"
               THEN LET e == [embed EXCEPT
                               !.calls = @ + 1,
                               !.embeddings = @ \o [i \in 1..Len(out.data) |->
                                                       SortedData(out.data)[i].embedding],
                               !.start = next,
                               !.attempt = 0,
                               !.delay = 0,
                               !.complete = @ /\ out.complete,
                               !.in_order = @ /\ out.in_order]
                    IN IF next < Len(embed.texts) THEN e ELSE EmbedReturn(e)
               ELSE LET e == [embed EXCEPT
                               !.calls = @ + 1,
                               !.other_errors = @ + (IF out.kind = "error" THEN 1 ELSE 0)]
                    IN IF Retried(out.kind)
                       THEN IF RetriesExhausted(embed.attempt + 1)
                            THEN [e EXCEPT !.attempt = @ + 1, !.pc = "raised",
                                           !.result = Raises("RateLimitError")]
                            ELSE [e EXCEPT !.attempt = @ + 1,
                                           !.delay = RetryDelay(embed.attempt + 1)]
                       ELSE [e EXCEPT !.pc = "raised", !.result = Raises("Exception")]
    /\ UNCHANGED <<uploaded_files, issued, index, requests, response, search_result, index_fields>>

EmbedNext ==
    \/ \E texts \in TextLists, b \in 0..MaxBatch : GenerateEmbeddingsBulk(texts, b)
    \/ \E text \in 1..MaxTexts, b \in 0..MaxBatch : GenerateEmbedding(text, b)
    \/ EmbeddingsCreate

SpecEmbed == Init /\ [][EmbedNext]_vars

----------------------------------------------------------------------------
(* SpecProcess: FileProcessor.process_file *)

\* Extracted texts: size is len(text), chunks the number of chunks
\* semantic_chunking cuts the text into
ExtractedTexts ==
    { [size |-> n, chunks |-> c] :
        n \in (MAX_DIRECT_CONTEXT_CHARS - MaxDelta)..(MAX_DIRECT_CONTEXT_CHARS + MaxDelta),
        c \in 0..MaxChunks }

semantic_chunking(text) ==
    [i \in 1..text.chunks |-> [chunk_index |-> i - 1, method |-> "semantic"]]

FileProcessingResult(use_direct_context, full_text, chunks, total_size) ==
    [use_direct_context |-> use_direct_context, full_text |-> full_text,
     chunks |-> chunks, total_size |-> total_size]

UseDirectBelow(text_size) == text_size < MAX_DIRECT_CONTEXT_CHARS

\* use_direct = text_size <= MAX_DIRECT_CONTEXT_CHARS
UseDirect(text_size) == text_size <= MAX_DIRECT_CONTEXT_CHARS

ProcessFileResult(text) ==
    LET text_size == text.size
    IN IF UseDirect(text_size)
       THEN FileProcessingResult(TRUE, text, <<>>, text_size)
       ELSE FileProcessingResult(FALSE, NULL, semantic_chunking(text), text_size)

\* process_file: extract_text_from_file raises ValueError, or the text it
\* returns is processed
process_file(text, extracted) ==
    /\ response = NoResponse
    /\ response' = [op |-> "process_file", text |-> text, raised |-> ~extracted,
                    result |-> IF extracted THEN ProcessFileResult(text) ELSE NULL]
    /\ UNCHANGED <<uploaded_files, issued, index, requests, search_result, embed, index_fields>>

ProcessNext ==
    \E text \in ExtractedTexts, extracted \in BOOLEAN : process_file(text, extracted)

SpecProcess == Init /\ [][ProcessNext]_vars

----------------------------------------------------------------------------
(* SpecChunk: LocalChunker.

   A string is the sequence of its tokens (what encoding.encode returns for
   it), a token being <<paragraph, sentence, position>> of the source text; the
   space between two sentences belongs to the token that follows it, the
   paragraph break "\n\n" is a token of its own.  The length of a string in
   characters is taken to be its number of tokens. *)

\* section_header of a chunk before any heading
None == "None"

Headers == { "H1", "H2" }

\* The token "\n\n"
ParagraphBreak == <<0, 0, 0>>

\* Paragraphs, as text.split('\n\n') yields them: sentences holds the number
\* of tokens of each sentence (none for a blank paragraph), header the text of
\* the first line that starts with '#'
Paragraphs ==
    { [header |-> None, sentences |-> <<>>] }
    \cup { [header |-> h, sentences |-> ss] :
              h \in Headers \cup {None},
              ss \in UNION { [1..n -> 1..MaxSentTokens] : n \in 1..MaxSents } }

\* Sentence s of paragraph i
Sentence(i, s, n) == [k \in 1..n |-> <<i, s, k>>]

RECURSIVE Concat(_)
\* ' '.join(parts)
Concat(parts) ==
    IF parts = <<>> THEN <<>> ELSE Head(parts) \o Concat(Tail(parts))

\* _split_sentences(para), para being paragraph i of the text
SplitSentences(para, i) ==
    [s \in 1..Len(para.sentences) |-> Sentence(i, s, para.sentences[s])]

\* para.strip(), para being paragraph i of the text
ParaText(para, i) == Concat(SplitSentences(para, i))

NeverBlank(para) == FALSE

\* not para (after strip)
IsBlank(para) == para.sentences = <<>>

DocumentChunk(content, chunk_index, token_count, char_start, char_end, section_header) ==
    [content |-> content, chunk_index |-> chunk_index, token_count |-> token_count,
     char_start |-> char_start, char_end |-> char_end,
     section_header |-> section_header]

\* tokens[-overlap_tokens:]
LastTokens(tokens, overlap_tokens) ==
    IF overlap_tokens = 0 THEN tokens
    ELSE SubSeq(tokens, Len(tokens) - overlap_tokens + 1, Len(tokens))

\* _get_overlap_text
GetOverlapText(chunks, overlap_tokens) ==
    LET combined == Join(ParagraphBreak, chunks)
    IN IF Len(combined) <= overlap_tokens THEN combined
       ELSE LastTokens(combined, overlap_tokens)

ExceedsOrFills(tokens, count, chunk_size) == tokens + count >= chunk_size

\* current_tokens + para_token_count > self.chunk_size
Exceeds(tokens, count, chunk_size) == tokens + count > chunk_size

AppendChunkIndexZero(st, content, token_count, char_start) ==
    [st EXCEPT !.chunks = Append(@, DocumentChunk(content, 0, token_count,
                                    char_start, st.char_position, st.current_header)),
               !.chunk_index = @ + 1]

\* chunks.append(DocumentChunk(...)); chunk_index += 1
AppendChunk(st, content, token_count, char_start) ==
    [st EXCEPT !.chunks = Append(@, DocumentChunk(content, st.chunk_index, token_count,
                                    char_start, st.char_position, st.current_header)),
               !.chunk_index = @ + 1]

DropCurrent(st) == st

\* "Save current chunk if exists", before an oversized paragraph is split
SaveCurrent(st) ==
    IF st.current_chunk # <<>>
    THEN AppendChunk(st, Join(ParagraphBreak, st.current_chunk), st.current_tokens,
                     st.chunk_start_char)
    ELSE st

\* One iteration of "for sentence in sentences"
SentenceStep(st, sentence, chunk_size, chunk_overlap) ==
    LET sent_token_count == Len(sentence)
        s1 == IF /\ Exceeds(st.sentence_tokens, sent_token_count, chunk_size)
                 /\ st.sentence_chunk # <<>>
              THEN LET overlap_text == GetOverlapText(st.sentence_chunk, chunk_overlap)
                       sentence_chunk == IF overlap_text # <<>> THEN <<overlap_text>>
                                         ELSE <<>>
                   IN [AppendChunk(st, Concat(st.sentence_chunk), st.sentence_tokens,
                                   st.sentence_start)
                         EXCEPT !.sentence_chunk = sentence_chunk,
                                !.sentence_tokens = Len(Concat(sentence_chunk)),
                                !.sentence_start = st.char_position]
              ELSE st
    IN [s1 EXCEPT !.sentence_chunk = Append(@, sentence),
                  !.sentence_tokens = @ + sent_token_count,
                  !.char_position = @ + Len(sentence) + 1]

RECURSIVE SentenceLoop(_, _, _, _)
SentenceLoop(st, sentences, chunk_size, chunk_overlap) ==
    IF sentences = <<>> THEN st
    ELSE SentenceLoop(SentenceStep(st, Head(sentences), chunk_size, chunk_overlap),
                      Tail(sentences), chunk_size, chunk_overlap)

\* "If single paragraph is too large, split by sentences"
SplitParagraph(st, para, i, chunk_size, chunk_overlap) ==
    LET s0 == SaveCurrent(st)
        s1 == SentenceLoop([s0 EXCEPT !.sentence_chunk = <<>>,
                                      !.sentence_tokens = 0,
                                      !.sentence_start = s0.char_position],
                           SplitSentences(para, i), chunk_size, chunk_overlap)
        s2 == IF s1.sentence_chunk # <<>>
              THEN AppendChunk(s1, Concat(s1.sentence_chunk), s1.sentence_tokens,
                               s1.sentence_start)
              ELSE s1
    IN [s2 EXCEPT !.current_chunk = <<>>,
                  !.current_tokens = 0,
                  !.chunk_start_char = s2.char_position]

\* "Save current chunk" and "Start new chunk with overlap"
StartNewChunk(st, text, chunk_overlap) ==
    LET overlap_text == GetOverlapText(st.current_chunk, chunk_overlap)
        current_chunk == IF overlap_text # <<>> THEN <<overlap_text, text>> ELSE <<text>>
    IN [AppendChunk(st, Join(ParagraphBreak, st.current_chunk), st.current_tokens,
                    st.chunk_start_char)
          EXCEPT !.current_chunk = current_chunk,
                 !.current_tokens = Len(Join(ParagraphBreak, current_chunk)),
                 !.chunk_start_char = st.char_position]

\* "Add to current chunk"
AddToCurrent(st, text) ==
    [st EXCEPT !.current_chunk = Append(@, text),
               !.current_tokens = @ + Len(text)]

\* One iteration of "for para in paragraphs", para being paragraph i
ParagraphStep(st, para, i, chunk_size, chunk_overlap) ==
    IF IsBlank(para) THEN st
    ELSE LET text == ParaText(para, i)
             para_token_count == Len(text)
             s0 == [st EXCEPT !.current_header =
                        IF para.header # None THEN para.header ELSE @]
             s1 == IF para_token_count > chunk_size
                   THEN SplitParagraph(s0, para, i, chunk_size, chunk_overlap)
                   ELSE IF /\ Exceeds(s0.current_tokens, para_token_count, chunk_size)
                           /\ s0.current_chunk # <<>>
                   THEN StartNewChunk(s0, text, chunk_overlap)
                   ELSE AddToCurrent(s0, text)
         IN [s1 EXCEPT !.char_position = @ + Len(text) + 2]

RECURSIVE ParagraphLoop(_, _, _, _, _)
ParagraphLoop(st, paragraphs, i, chunk_size, chunk_overlap) ==
    IF i > Len(paragraphs) THEN st
    ELSE ParagraphLoop(ParagraphStep(st, paragraphs[i], i, chunk_size, chunk_overlap),
                       paragraphs, i + 1, chunk_size, chunk_overlap)

\* LocalChunker.chunk_text, as a function of the text and the configuration
ChunkText(paragraphs, chunk_size, chunk_overlap) ==
    LET st == ParagraphLoop([chunks |-> <<>>, current_chunk |-> <<>>,
                             current_tokens |-> 0, char_position |-> 0,
                             chunk_start_char |-> 0, chunk_index |-> 0,
                             current_header |-> None, sentence_chunk |-> <<>>,
                             sentence_tokens |-> 0, sentence_start |-> 0],
                            paragraphs, 1, chunk_size, chunk_overlap)
    IN IF st.current_chunk # <<>>
       THEN AppendChunk(st, Join(ParagraphBreak, st.current_chunk), st.current_tokens,
                        st.chunk_start_char).chunks
       ELSE st.chunks

\* LocalChunker.__init__
LocalChunker(chunk_size, chunk_overlap) ==
    /\ response = NoResponse
    /\ response' = [op |-> "LocalChunker", chunk_size |-> chunk_size,
                    chunk_overlap |-> chunk_overlap]
    /\ UNCHANGED <<uploaded_files, issued, index, requests, search_result, embed, index_fields>>

\* chunk_text of a chunker that was constructed
chunk_text(text) ==
    /\ response.op = "LocalChunker"
    /\ response' = [op |-> "chunk_text", chunk_size |-> response.chunk_size,
                    chunk_overlap |-> response.chunk_overlap, text |-> text,
                    chunks |-> ChunkText(text, response.chunk_size,
                                         response.chunk_overlap)]
    /\ UNCHANGED <<uploaded_files, issued, index, requests, search_result, embed, index_fields>>

\* What upload_document returns or raises; embedded_texts is the number of
\* texts it passed to _generate_embeddings_bulk, -1 if it did not call it
UploadResult(chunked, raised, chunk_count, embedded_texts) ==
    [op |-> "upload_document", chunk_size |-> chunked.chunk_size,
     chunk_overlap |-> chunked.chunk_overlap, text |-> chunked.text,
     chunks |-> chunked.chunks, raised |-> raised, chunk_count |-> chunk_count,
     embedded_texts |-> embedded_texts]

\* upload_document after chunks = self.chunker.chunk_text(content)
UploadChunks(idn, f) ==
    /\ response.op = "chunk_text"
    /\ Len(response.chunks) <= MaxIndexedChunks
    /\ LET n == Len(response.chunks)
       IN IF response.chunks = <<>>
          THEN /\ response' = UploadResult(response, FALSE, 0, -1)
               /\ UNCHANGED index
          ELSE \E out \in EmbedOutcomes(n) :
                  IF out.raised \/ EmbeddingCountMismatch(out.count, n)
                  THEN /\ response' = UploadResult(response, TRUE, 0, n)
                       /\ UNCHANGED index
                  ELSE \E w \in BatchOutcomes(Batch(Documents(f, idn.org_id, idn.user_id,
                                                             n, out.count), 0)) :
                          /\ index' = Upsert(index, w.succeeded)
                          /\ response' = UploadResult(response, w.raised,
                                                      IF w.raised THEN 0 ELSE n, n)
    /\ UNCHANGED <<uploaded_files, issued, requests, search_result, embed, index_fields>>

ChunkNext ==
    \/ \E chunk_size \in 1..MaxChunkSize, chunk_overlap \in 0..MaxOverlap :
          LocalChunker(chunk_size, chunk_overlap)
    \/ \E n \in 0..MaxParas : \E text \in [1..n -> Paragraphs] : chunk_text(text)
    \/ \E idn \in Uploaders, f \in FileIds : UploadChunks(idn, f)

SpecChunk == Init /\ [][ChunkNext]_vars

----------------------------------------------------------------------------
(* SpecEnsure: AzureRAGService._ensure_index, run by every construction of the
   service, over an index that is absent or has the schema of some version *)

\* The fields of an index created before page_number and section_header existed
OldFields == RequiredFields \ { "page_number", "section_header" }

\* The definitions an index found by get_index can have
IndexFieldSets == { OldFields, RequiredFields \ { "section_header" }, RequiredFields }

\* The call of index_client that raises an HttpResponseError other than
\* ResourceNotFoundError, if any
EnsureFailures == { "none", "get_index", "delete_index", "create_index" }

HasNewSchemaNever(fields) == FALSE

\* has_new_schema = any(field.name == "page_number" for field in existing_index.fields)
HasNewSchema(fields) == "page_number" \in fields

\* A call of index_client; found says whether the index existed when it was made
ClientCall(name, fields) == [name |-> name, found |-> fields # NoIndex]

\* What _ensure_index leaves and which calls it makes
EnsureIndex(fields, docs, fails) ==
    LET get == <<ClientCall("get_index", fields)>>
        delete == get \o <<ClientCall("delete_index", fields)>>
        Create(calls) ==
            IF fails = "create_index"
            THEN [fields |-> NoIndex, docs |-> {}, raised |-> TRUE,
                  calls |-> calls \o <<ClientCall("create_index", NoIndex)>>]
            ELSE [fields |-> RequiredFields, docs |-> {}, raised |-> FALSE,
                  calls |-> calls \o <<ClientCall("create_index", NoIndex)>>]
    IN IF fails = "get_index"
       THEN [fields |-> fields, docs |-> docs, raised |-> TRUE, calls |-> get]
       ELSE IF fields = NoIndex
       THEN Create(get)
       ELSE IF HasNewSchema(fields)
       THEN [fields |-> fields, docs |-> docs, raised |-> FALSE, calls |-> get]
       ELSE IF fails = "delete_index"
       THEN [fields |-> fields, docs |-> docs, raised |-> TRUE, calls |-> delete]
       ELSE Create(delete)

\* One run of _ensure_index; stored is the content of the index it found
_ensure_index(fails) ==
    /\ LET r == EnsureIndex(index_fields, index, fails)
       IN /\ index_fields' = r.fields
          /\ index' = r.docs
          /\ response' = [op |-> "_ensure_index", calls |-> r.calls,
                          raised |-> r.raised, stored |-> index]
    /\ UNCHANGED <<uploaded_files, issued, requests, search_result, embed>>

EnsureInit ==
    /\ uploaded_files = [f \in FileIds |-> NoRow]
    /\ issued = {}
    /\ index = {}
    /\ requests = EmptyBag
    /\ response = NoResponse
    /\ search_result = NoResponse
    /\ embed = NoEmbed
    /\ index_fields \in {NoIndex} \cup IndexFieldSets

EnsureNext ==
    \/ \E fails \in EnsureFailures : _ensure_index(fails)
    \/ \E idn \in Tenants, f \in FileIds, c \in Texts :
          index_fields # NoIndex /\ upload_document(idn, f, c)

SpecEnsure == EnsureInit /\ [][EnsureNext]_vars

----------------------------------------------------------------------------
(* Properties *)

\* The upload and retry requests that returned after running the indexing code
Returned ==
    response.op \in {"upload", "retry"} /\ response.request # NoRequest

\* C1: every chunk search_documents returns for (org_id, user_id) comes from
\* an index record tagged with that org_id and that user_id, whatever file_ids
\* the caller passes.
C1_SearchReturnsOnlyOwnTenant ==
    (search_result # NoResponse /\ ~search_result.raised) =>
        \A d \in search_result.records :
            /\ d.org_id = search_result.call.org_id
            /\ d.user_id = search_result.call.user_id

\* C2: a file of the RAG path whose status is ready has, for every chunk of
\* its text, the record (file_id, chunk_index) of its tenant in the index.
C2_ReadyImpliesAllChunksIndexed ==
    \A f \in FileIds :
        (HasRow(f) /\ uploaded_files[f].status = "ready"
                   /\ ~uploaded_files[f].use_direct_context) =>
            \A i \in ChunkIndexes(uploaded_files[f].content) :
                Document(f, uploaded_files[f].org_id, uploaded_files[f].created_by, i)
                    \in index

\* C3: an upload or retry whose embedding call returned a number of vectors
\* other than the number of chunks returns a failure, has written no record
\* to the index, and leaves the file (if its row still exists) in error.
C3_MismatchWritesNothing ==
    (Returned /\ response.request.n_embeddings # -1
              /\ response.request.n_embeddings # response.request.content) =>
        /\ response.status_code = 500
        /\ response.request.written = {}
        /\ HasRow(response.file_id) =>
              /\ uploaded_files[response.file_id].status = "error"
              /\ uploaded_files[response.file_id].error_message = MismatchError

C3_MismatchSeen ==
    /\ Returned
    /\ response.request.n_embeddings = response.request.content + 1
    /\ response.status_code = 500
    /\ HasRow(response.file_id)
    /\ uploaded_files[response.file_id].status = "error"

\* C4: an upload or retry in which chunking, embedding or an index write
\* raised returns a failure, and when it returns the file (if its row still
\* exists) has status error and error_message the first 500 characters of the
\* failure text; a request that returns success met no failure.
C4_FailureEndsInError ==
    Returned =>
        /\ (response.request.error # NULL) <=> (response.status_code = 500)
        /\ (response.status_code = 500 /\ HasRow(response.file_id)) =>
              LET row == uploaded_files[response.file_id]
                  e == response.request.error
              IN /\ row.status = "error"
                 /\ row.error_message.id = e.id
                 /\ row.error_message.len = Min(e.len, ERROR_MSG_LIMIT)
                 /\ row.error_message.len <= ERROR_MSG_LIMIT

C4_LongFailureSeen ==
    /\ Returned
    /\ response.op = "retry"
    /\ response.status_code = 500
    /\ response.request.error.len > ERROR_MSG_LIMIT
    /\ HasRow(response.file_id)
    /\ uploaded_files[response.file_id].status = "error"
    /\ uploaded_files[response.file_id].error_message.len = ERROR_MSG_LIMIT

\* C5 (as stated): cleanup_stuck_files sets to error, with the timeout message,
\* exactly the files whose status is processing and whose age is more than 10
\* minutes, returns them with their number, and leaves every other row as it is.
C5_SweepExactlyStuck ==
    [][ \A idn \in Identities : CleanupStuckFiles(idn) =>
          LET stuck == { f \in FileIds : /\ HasRow(f)
                                         /\ uploaded_files[f].status = "processing"
                                         /\ uploaded_files[f].file_age > STUCK_MINUTES }
          IN /\ \A f \in stuck : /\ uploaded_files'[f].status = "error"
                                 /\ uploaded_files'[f].error_message = TimeoutMessage
             /\ response'.files = stuck
             /\ response'.cleaned_count = Cardinality(stuck)
             /\ \A f \in FileIds \ stuck : uploaded_files'[f] = uploaded_files[f]
      ]_vars

\* C5 (amended): cleanup_stuck_files sets to error, with the timeout message,
\* exactly the files of the caller's organisation whose status is processing
\* and whose age is more than 10 minutes, returns them with their number, and
\* leaves every other row, of any organisation, as it is; the rows it sets to
\* error change in status and error_message only.
C5_SweepExactlyStuckOfOrg ==
    [][ \A idn \in Identities : CleanupStuckFiles(idn) =>
          LET stuck == { f \in FileIds : /\ HasRow(f)
                                         /\ uploaded_files[f].org_id = idn.org_id
                                         /\ uploaded_files[f].status = "processing"
                                         /\ uploaded_files[f].file_age > STUCK_MINUTES }
          IN /\ \A f \in stuck :
                   uploaded_files'[f] = [uploaded_files[f] EXCEPT
                                            !.status = "error",
                                            !.error_message = TimeoutMessage]
             /\ response'.files = stuck
             /\ response'.cleaned_count = Cardinality(stuck)
             /\ \A f \in FileIds \ stuck : uploaded_files'[f] = uploaded_files[f]
      ]_vars

C5_SweepSeen ==
    /\ response.op = "cleanup"
    /\ response.cleaned_count = 1
    /\ \E f \in response.files :
          /\ uploaded_files[f].status = "error"
          /\ uploaded_files[f].error_message = TimeoutMessage
    /\ \E f \in FileIds \ response.files :
          /\ uploaded_files[f].org_id = response.org_id
          /\ uploaded_files[f].status = "processing"
          /\ uploaded_files[f].file_age = STUCK_MINUTES

\* C6: retry_file_indexing goes on to index only a file whose status is error,
\* or whose status is processing and whose age is strictly more than 10
\* minutes; the call itself, accepted or rejected, changes no row.
C6_RetryOnlyErrorOrStuck ==
    [][ \A idn \in Identities, f \in FileIds : RetryFileIndexing(idn, f) =>
          /\ uploaded_files' = uploaded_files
          /\ requests' # requests =>
                /\ HasRow(f)
                /\ \/ uploaded_files[f].status = "error"
                   \/ /\ uploaded_files[f].status = "processing"
                      /\ uploaded_files[f].file_age > STUCK_MINUTES
      ]_vars

\* C7: a row whose status is ready keeps that status as long as it exists.
C7_ReadyIsTerminal ==
    [][ \A f \in FileIds :
          (HasRow(f) /\ uploaded_files[f].status = "ready" /\ uploaded_files'[f] # NoRow)
              => uploaded_files'[f].status = "ready"
      ]_vars

\* C8: every change of the status of a row is pending -> processing,
\* pending -> ready, processing -> ready, processing -> error or
\* error -> processing.
C8_OnlyListedStatusChanges ==
    [][ \A f \in FileIds :
          (HasRow(f) /\ uploaded_files'[f] # NoRow
                     /\ uploaded_files'[f].status # uploaded_files[f].status)
              => <<uploaded_files[f].status, uploaded_files'[f].status>>
                    \in { <<"pending", "processing">>, <<"pending", "ready">>,
                          <<"processing", "ready">>, <<"processing", "error">>,
                          <<"error", "processing">> }
      ]_vars

\* C9: with time advancing and the sweep run again and again, a file whose
\* status is processing eventually has status ready or error (or its row is
\* deleted), whatever becomes of the request that was indexing it.
C9_ProcessingEnds ==
    \A f \in FileIds :
        (HasRow(f) /\ uploaded_files[f].status = "processing")
            ~> (~HasRow(f) \/ uploaded_files[f].status \in {"ready", "error"})

C9_SweptAfterCancel ==
    /\ HasRow("f1")
    /\ uploaded_files["f1"].status = "error"
    /\ uploaded_files["f1"].error_message = TimeoutMessage
    /\ requests = EmptyBag
    /\ response.op = "cleanup"
    /\ response.files = {"f1"}

\* C10: when every provider call answered with one item per input, tagged with
\* its position in the request, in any order, _generate_embeddings_bulk returns
\* as many vectors as texts, vector k being the embedding of text k.
C10_VectorsFollowInputs ==
    (embed.pc = "returned" /\ embed.complete) =>
        /\ Len(embed.embeddings) = Len(embed.texts)
        /\ \A k \in 1..Len(embed.texts) : embed.embeddings[k] = Embedding(embed.texts[k])

C10_ShuffledAcrossBatches ==
    /\ embed.pc = "returned"
    /\ embed.complete
    /\ ~embed.in_order
    /\ Len(embed.texts) > embed.batch_size
    /\ \A i, j \in 1..Len(embed.texts) : embed.texts[i] = embed.texts[j] => i = j
    /\ Len(embed.embeddings) = Len(embed.texts)


\* C11: a call of _generate_embeddings_bulk that returns, returns as many
\* vectors as it was given texts (one for _generate_embedding), whatever the
\* number of items in the provider's responses.
C11_ReturnsOneVectorPerText ==
    embed.pc = "returned" => Len(embed.result.vectors) = Len(embed.texts)

\* C12: a batch is retried after a rate limit at most EMBEDDING_MAX_RETRIES
\* times, the wait before retry number attempt being EMBEDDING_RETRY_DELAY *
\* attempt; the call fails with the rate-limit error exactly when a batch has
\* been rate-limited EMBEDDING_MAX_RETRIES + 1 times, and then returns no vector.
C12_RetriesAreBounded ==
    embed.pc # "off" =>
        /\ embed.attempt <= EMBEDDING_MAX_RETRIES + 1
        /\ (embed.pc = "create" /\ embed.attempt > 0) =>
              embed.delay = EMBEDDING_RETRY_DELAY * embed.attempt
        /\ (embed.attempt = EMBEDDING_MAX_RETRIES + 1) <=>
              (embed.result.kind = "RateLimitError")
        /\ embed.result.kind = "RateLimitError" =>
              /\ embed.pc = "raised"
              /\ embed.result.vectors = <<>>

C12_FailedAfterLastRetry ==
    /\ embed.pc = "raised"
    /\ embed.result.kind = "RateLimitError"
    /\ embed.attempt = EMBEDDING_MAX_RETRIES + 1
    /\ embed.start > 0
    /\ embed.embeddings # <<>>
    /\ embed.result.vectors = <<>>

\* C13: once a provider call has failed with an error other than a rate limit,
\* the call has ended with that error: it was the only such failure, no vector
\* is returned and no further provider call can be made.
C13_OtherErrorsFailFast ==
    (embed.pc # "off" /\ embed.other_errors > 0) =>
        /\ embed.other_errors = 1
        /\ embed.pc = "raised"
        /\ embed.result = Raises("Exception")
        /\ ~ENABLED EmbeddingsCreate

C13_FailedInLaterBatch ==
    /\ embed.pc = "raised"
    /\ embed.other_errors = 1
    /\ embed.result.kind = "Exception"
    /\ embed.start > 0
    /\ embed.start < Len(embed.texts)


\* C14: a delete_document(file_id, org_id, user_id) call that returns leaves
\* no record with that file_id, org_id and user_id in the index; called when
\* there is none, it returns and leaves the index as it is.
C14_DeleteLeavesNoRecord ==
    [][ \A idn \in Tenants, f \in FileIds :
          delete_document(idn, Plain(f), FALSE) =>
              /\ \A d \in index' : ~(/\ d.file_id = f
                                     /\ d.org_id = idn.org_id
                                     /\ d.user_id = idn.user_id)
              /\ (\A d \in index : ~(/\ d.file_id = f
                                     /\ d.org_id = idn.org_id
                                     /\ d.user_id = idn.user_id)) => index' = index
      ]_vars

\* C15: delete_document(file_id, org_id, user_id) leaves in the index, as it
\* is, every record whose file_id, org_id or user_id differs from its argument.
C15_DeleteOnlyOwnFile ==
    [][ \A idn \in Tenants, file_id \in DeleteIdArgs, raised \in BOOLEAN :
          delete_document(idn, file_id, raised) =>
              \A d \in index :
                  (\/ Plain(d.file_id) # file_id
                   \/ d.org_id # idn.org_id
                   \/ d.user_id # idn.user_id) => d \in index'
      ]_vars

\* C16: upload_document called for one tenant leaves in the index, as it is,
\* every record tagged with another org_id or user_id.
C16_UploadKeepsOtherTenants ==
    [][ \A idn \in Tenants, f \in FileIds, c \in Texts :
          upload_document(idn, f, c) =>
              \A d \in index :
                  (d.org_id # idn.org_id \/ d.user_id # idn.user_id) => d \in index'
      ]_vars


\* C17: a search_documents call that returns, returns exactly min(top_k, M)
\* chunks, M being the number of records its filter selects; no record left
\* out scores higher than a returned one; the chunks are listed by descending
\* score, and chunks of equal score by ascending chunk_index.
C17_SearchRanksResults ==
    [][ \A idn \in Searchers, ids \in FileIdLists, k \in 1..MaxTopK :
          (search_documents(idn, ids, k, TRUE) /\ ~search_result'.raised) =>
              LET filter_str == SearchFilterStr(Plain(idn.org_id), Plain(idn.user_id), ids)
                  M == Cardinality({ d \in index : ODataMatch(filter_str, d) })
                  chunks == search_result'.chunks
              IN /\ Len(chunks) = Min(k, M)
                 /\ \A i \in 1..Len(chunks) : chunks[i].score >= search_result'.passed_over
                 /\ \A i \in 1..(Len(chunks) - 1) :
                       \/ chunks[i].score > chunks[i + 1].score
                       \/ /\ chunks[i].score = chunks[i + 1].score
                          /\ chunks[i].chunk_index <= chunks[i + 1].chunk_index
      ]_vars


\* C18: a search_documents call that returns with a non-empty file_ids returns
\* only chunks whose file_id is in file_ids; with an empty file_ids its
\* candidates are all the records of the calling tenant; in both cases every
\* returned chunk comes from a record of the calling tenant.
C18_FileFilterIffFileIds ==
    [][ \A idn \in Searchers, ids \in FileIdLists, k \in 1..MaxTopK :
          (search_documents(idn, ids, k, TRUE) /\ ~search_result'.raised) =>
              LET own == { d \in index : d.org_id = idn.org_id /\ d.user_id = idn.user_id }
                  chunks == search_result'.chunks
              IN /\ search_result'.records \subseteq own
                 /\ ids # <<>> =>
                       \A i \in 1..Len(chunks) :
                           \E j \in 1..Len(ids) : ids[j] = Plain(chunks[i].file_id)
                 /\ ids = <<>> => Len(chunks) = Min(k, Cardinality(own))
      ]_vars


\* C19: process_file returns a direct-context result exactly when the text
\* has at most 50,000 characters, and a direct-context result carries the
\* whole text and no chunks.
C19_DirectIffAtMostThreshold ==
    (response.op = "process_file" /\ ~response.raised) =>
        /\ response.result.use_direct_context <=> response.text.size <= 50000
        /\ response.result.use_direct_context =>
              /\ response.result.full_text = response.text
              /\ response.result.chunks = <<>>

\* A text of exactly 50,000 characters, which the chunker would cut into
\* chunks, was processed as direct context
C19_DirectAtThreshold ==
    /\ response.op = "process_file" /\ ~response.raised
    /\ response.text.size = 50000 /\ response.text.chunks > 0
    /\ response.result.use_direct_context


ChunkTextReturned == response.op = "chunk_text"

\* C21: the chunks chunk_text returns carry chunk_index 0, 1, 2, ... in list
\* order, and char_start never decreases along the list.
C21_ChunkIndexesInOrder ==
    ChunkTextReturned =>
        /\ \A i \in 1..Len(response.chunks) : response.chunks[i].chunk_index = i - 1
        /\ \A i \in 1..(Len(response.chunks) - 1) :
              response.chunks[i].char_start <= response.chunks[i + 1].char_start

\* chunk_text returned chunks of the paragraph path and of the sentence path
C21_ThreeChunksSeen ==
    /\ ChunkTextReturned
    /\ Len(response.chunks) >= 3
    /\ \E i \in 1..Len(response.text) :
          Len(ParaText(response.text[i], i)) > response.chunk_size
    /\ response.chunks[1].char_start < response.chunks[3].char_start


\* A chunk that is one sentence, alone longer than chunk_size
SingleLongSentence(chunk, text, chunk_size) ==
    \E i \in 1..Len(text) :
        \E sentence \in { SplitSentences(text[i], i)[n] : n \in 1..Len(text[i].sentences) } :
            chunk.content = sentence /\ Len(sentence) > chunk_size

\* C22: every chunk chunk_text returns has a token count of at most
\* chunk_size, unless the chunk is one single sentence that alone exceeds
\* chunk_size; chunks that begin with the overlap of the previous chunk
\* included.
C22_TokenCountWithinChunkSize ==
    ChunkTextReturned =>
        \A i \in 1..Len(response.chunks) :
            \/ response.chunks[i].token_count <= response.chunk_size
            \/ SingleLongSentence(response.chunks[i], response.text, response.chunk_size)


\* part occurs in whole as a run of consecutive tokens
Within(part, whole) ==
    \E k \in 0..(Len(whole) - Len(part)) : SubSeq(whole, k + 1, k + Len(part)) = part

\* The units of a text that chunk_text handles whole, in source order: a
\* non-blank paragraph, or each sentence of a paragraph longer than chunk_size
RECURSIVE Units(_, _, _)
Units(text, i, chunk_size) ==
    IF i > Len(text) THEN <<>>
    ELSE (IF IsBlank(text[i]) THEN <<>>
          ELSE IF Len(ParaText(text[i], i)) > chunk_size THEN SplitSentences(text[i], i)
          ELSE <<ParaText(text[i], i)>>) \o Units(text, i + 1, chunk_size)

\* Position in chunks of the first chunk that holds unit (0 if none does)
FirstAppearance(unit, chunks) ==
    IF \E c \in 1..Len(chunks) : Within(unit, chunks[c].content)
    THEN CHOOSE c \in 1..Len(chunks) :
            /\ Within(unit, chunks[c].content)
            /\ \A b \in 1..(c - 1) : ~Within(unit, chunks[b].content)
    ELSE 0

\* C23: every non-blank paragraph, and every sentence of a paragraph of more
\* than chunk_size tokens, appears verbatim in the content of a returned
\* chunk, and the first appearances follow the order of the source.
C23_NoContentDropped ==
    ChunkTextReturned =>
        LET units == Units(response.text, 1, response.chunk_size)
        IN /\ \A u \in 1..Len(units) : FirstAppearance(units[u], response.chunks) > 0
           /\ \A u \in 1..(Len(units) - 1) :
                 FirstAppearance(units[u], response.chunks)
                    <= FirstAppearance(units[u + 1], response.chunks)

\* A chunk was open when a paragraph longer than chunk_size arrived, and
\* paragraphs followed it
C23_LongParagraphInTheMiddle ==
    /\ ChunkTextReturned
    /\ Len(response.text) = 3
    /\ ~IsBlank(response.text[1]) /\ ~IsBlank(response.text[3])
    /\ Len(ParaText(response.text[1], 1)) <= response.chunk_size
    /\ Len(ParaText(response.text[2], 2)) > response.chunk_size
    /\ Len(response.text[2].sentences) = 2
    /\ Len(response.chunks) >= 3


\* A chunk of the paragraph path: it holds no token of a paragraph that was
\* split by sentences
ParagraphPath(chunk, text, chunk_size) ==
    \A k \in 1..Len(chunk.content) :
        LET token == chunk.content[k]
        IN token # ParagraphBreak =>
              Len(ParaText(text[token[1]], token[1])) <= chunk_size

\* C24: for consecutive chunks i and i+1 of the paragraph path, the content of
\* chunk i+1 begins with the last chunk_overlap tokens of the content of
\* chunk i (all of it if it has at most chunk_overlap tokens), followed by the
\* new paragraph, one that chunk i does not hold.
C24_NextChunkBeginsWithOverlap ==
    ChunkTextReturned =>
        \A i \in 1..(Len(response.chunks) - 1) :
            (/\ ParagraphPath(response.chunks[i], response.text, response.chunk_size)
             /\ ParagraphPath(response.chunks[i + 1], response.text, response.chunk_size)) =>
                LET previous == response.chunks[i].content
                    next == response.chunks[i + 1].content
                    overlap == IF Len(previous) <= response.chunk_overlap THEN previous
                               ELSE SubSeq(previous,
                                           Len(previous) - response.chunk_overlap + 1,
                                           Len(previous))
                IN \E p \in 1..Len(response.text) :
                      LET para == ParaText(response.text[p], p)
                          start == Join(ParagraphBreak,
                                        IF overlap = <<>> THEN <<para>>
                                        ELSE <<overlap, para>>)
                      IN /\ ~IsBlank(response.text[p])
                         /\ ~Within(para, previous)
                         /\ Len(start) <= Len(next)
                         /\ SubSeq(next, 1, Len(start)) = start


\* C25: the section_header of every chunk is the heading of the latest
\* paragraph with a heading among those up to the last paragraph the chunk
\* holds, and None when there is no such paragraph.
C25_HeaderOfLastParagraph ==
    ChunkTextReturned =>
        \A i \in 1..Len(response.chunks) :
            LET content == response.chunks[i].content
                last == content[Len(content)][1]
                headed == { p \in 1..last : response.text[p].header # None }
            IN response.chunks[i].section_header =
                  IF headed = {} THEN None
                  ELSE response.text[CHOOSE p \in headed : \A o \in headed : o <= p].header


\* C26: a chunker is never constructed, and chunk_text never runs, with
\* chunk_overlap greater than or equal to chunk_size.
C26_OverlapBelowChunkSize ==
    response.op \in {"LocalChunker", "chunk_text", "upload_document"} =>
        response.chunk_overlap < response.chunk_size

\* The texts of the non-blank paragraphs of a text, in source order
RECURSIVE NonBlank(_, _)
NonBlank(text, i) ==
    IF i > Len(text) THEN <<>>
    ELSE (IF IsBlank(text[i]) THEN <<>> ELSE <<ParaText(text[i], i)>>)
         \o NonBlank(text, i + 1)

C28_BlankTextGivesNoChunks ==
    (response.op \in {"chunk_text", "upload_document"}
        /\ \A p \in 1..Len(response.text) : response.text[p].sentences = <<>>) =>
            /\ response.chunks = <<>>
            /\ response.op = "upload_document" =>
                  /\ ~response.raised
                  /\ response.chunk_count = 0
                  /\ response.embedded_texts = -1
                  /\ index = {}

\* upload_document returned for a text of two blank paragraphs
C28_WhitespaceUploaded ==
    /\ response.op = "upload_document"
    /\ Len(response.text) = 2
    /\ \A p \in 1..2 : response.text[p].sentences = <<>>
    /\ response.chunk_count = 0


\* C29: when an upload or a retry fails in indexing, the detail returned to
\* the caller is at most 500 characters long.
C29_ReturnedDetailAtMost500 ==
    (Returned /\ response.status_code = 500) => response.detail.len <= 500

\* C30: delete_file never answers not-found: for a file id without a row it
\* returns success.
C30_DeleteOfUnknownFileSucceeds ==
    response.op = "delete" => response.status_code # 404

\* C31: when delete_file, called by the owner of a file, returns, it returns
\* success and the file's row is gone from uploaded_files, also when
\* delete_document raised.
C31_OwnerDeleteRemovesRow ==
    (response.op = "delete" /\ response.request # NoRequest)
        => /\ response.status_code = 200
           /\ ~HasRow(response.file_id)

\* a delete of a file with records in the index returned after delete_document
\* raised, and the records are still there
C31_DeletedThoughIndexRaised ==
    /\ response.op = "delete"
    /\ response.request # NoRequest
    /\ response.request.error \in IndexDeleteErrors
    /\ \E d \in index : d.file_id = response.file_id

\* C32: when an upload or retry of a file of the RAG path returns having set
\* the file ready, the row's chunk_count is the number of records the run
\* wrote to the index for the file, and the row's indexed_at is set.
C32_ReadyCountsWrittenChunks ==
    (Returned /\ response.status_code = 200
              /\ ~response.request.use_direct_context
              /\ HasRow(response.file_id)) =>
        /\ uploaded_files[response.file_id].status = "ready"
        /\ uploaded_files[response.file_id].chunk_count
              = Cardinality(response.request.written)
        /\ uploaded_files[response.file_id].indexed_at

C34_OneIndexingRunPerFile ==
    \A q \in InFlight :
        q.op \in {"upload", "retry"} =>
            /\ CopiesIn(q, requests) = 1
            /\ \A p \in InFlight :
                  (p.op \in {"upload", "retry"} /\ p.file_id = q.file_id) => p = q

\* C35: once delete_file has returned success for a file and no handler is in
\* flight any more, the index holds no record with that file_id.
C35_DeletedFileLeavesNoRecord ==
    (response.op = "delete" /\ response.status_code = 200 /\ requests = EmptyBag) =>
        \A d \in index : d.file_id # response.file_id

\* C36: a file that cleanup_stuck_files moves from processing to error entered
\* processing (by its upload or by the reset of a retry) at least 10 minutes
\* before the sweep.
C36_SweepSparesRecentAttempts ==
    [][\A idn \in Identities : CleanupStuckFiles(idn) =>
          \A f \in FileIds :
              (HasRow(f) /\ uploaded_files[f].status = "processing"
                         /\ uploaded_files'[f].status = "error")
                  => uploaded_files[f].attempt_age >= STUCK_MINUTES]_vars

\* C37: in every state, a file whose status is ready or processing has no
\* error_message, and a file whose status is error has one.
C37_ErrorMessageFollowsStatus ==
    \A f \in FileIds :
        HasRow(f) =>
            /\ uploaded_files[f].status \in {"ready", "processing"}
                  => uploaded_files[f].error_message = NULL
            /\ uploaded_files[f].status = "error"
                  => uploaded_files[f].error_message # NULL

C39_ProviderCallsAreBounded ==
    /\ [](embed # NoEmbed =>
            LET N == Len(embed.texts)
                B == embed.batch_size
            IN /\ embed.calls <= ((N + B - 1) \div B) * (EMBEDDING_MAX_RETRIES + 1)
               /\ N = 0 => /\ embed.pc = "returned"
                           /\ embed.result = Returns(<<>>)
                           /\ embed.calls = 0)
    /\ [][embed.pc = "create" => embed'.calls = embed.calls + 1]_embed

\* a call over several batches has ended in RateLimitError after as many
\* provider calls as the bound allows
C39_BoundReached ==
    /\ embed # NoEmbed
    /\ Len(embed.texts) > embed.batch_size
    /\ embed.pc = "raised"
    /\ embed.calls = ((Len(embed.texts) + embed.batch_size - 1) \div embed.batch_size)
                        * (EMBEDDING_MAX_RETRIES + 1)

====
